---- MODULE Spec2Model ----
(***************************************************************************)
(* commandapp.py: a tree of named commands (CommandApp at the root,        *)
(* CommandMenuNode inside, CommandOptionHandler at the leaves) and the     *)
(* recursive parse_args that resolves a token list against it.             *)
(*                                                                         *)
(* A string is a sequence of one-character strings, so that str.lower()    *)
(* is modelled by what it does to each character.                          *)
(***************************************************************************)
EXTENDS Integers, Sequences, FiniteSets, TLC

\* ---------------------------------------------------------------- bounds
MaxArgs == 3        \* longest token list a caller passes to the root
MaxAttached == 3    \* most add_command calls made while building a tree

\* ------------------------------------------------------------- strings
LowerChar(c) ==
    CASE c = "D" -> "d"
      [] c = "E" -> "e"
      [] c = "P" -> "p"
      [] OTHER   -> c

\* str.lower(): every character replaced by its lower-case form
Lower(s) == [i \in 1..Len(s) |-> LowerChar(s[i])]

\* the tokens a caller may put in a token list
Tokens == { <<"d","e">>, <<"D","E">>, <<"p">>, <<"-","a">> }

RECURSIVE SeqsUpTo(_)
SeqsUpTo(n) ==
    IF n = 0 THEN { <<>> }
    ELSE LET S == SeqsUpTo(n - 1)
         IN  S \cup { Append(s, t) : s \in { x \in S : Len(x) = n - 1 }, t \in Tokens }

TokenLists == SeqsUpTo(MaxArgs)

\* ------------------------------------------------------- the node objects
\* The objects the application has constructed.  Root is the CommandApp;
\* the others are CommandMenuNode ("Menu") and CommandOptionHandler
\* subclasses ("Option") waiting to be wired in with add_command.
Root == 0
Nodes == 0..5

nodeClass == [n \in Nodes |->
    CASE n = 0 -> "App"
      [] n \in {1, 2} -> "Menu"
      [] OTHER -> "Option"]

command_name == [n \in Nodes |->
    CASE n = 0 -> <<>>
      [] n = 1 -> <<"D","e">>
      [] n = 2 -> <<"d","E">>
      [] n = 3 -> <<"p">>
      [] OTHER -> <<"P">>]

description == [n \in Nodes |->
    CASE n = 0 -> "app"
      [] n = 1 -> "does what De does"
      [] n = 2 -> "does what dE does"
      [] n = 3 -> "pretty"
      [] OTHER -> "unfinished"]

\* what the leaf's setup() registered: the flags its parser accepts
schema == [n \in Nodes |-> IF n = 3 THEN { <<"-","a">> } ELSE {}]

\* which handle_command the leaf's class has:
\*   "own"    its own: returns 0, or a nonzero code of its own when it is
\*            given positional remainders it has no use for
\*   "base"   inherits CommandOptionHandler.handle_command
handler == [n \in Nodes |-> IF n = 3 THEN "own" ELSE "base"]

\* which setup the leaf's class has: "own" (its own, which registers the
\* flags of schema) or "base" (inherits CommandOptionHandler.setup)
setupMethod == [n \in Nodes |-> IF n = 5 THEN "base" ELSE "own"]

\* the nonzero code the application's own handler returns
HandlerCode == 2

\* ------------------------------------------------------ returned values
Pending    == [kind |-> "pending", code |-> 0, exc |-> ""]
RetInt(c)  == [kind |-> "int",     code |-> c, exc |-> ""]
RetNone    == [kind |-> "none",    code |-> 0, exc |-> ""]
Raise(e)   == [kind |-> "raise",   code |-> 0, exc |-> e]

\* -------------------------------------------------------------- state
VARIABLES
    commands,   \* commands[n]: the list self.commands of node n
    args,       \* the token list object the caller passed to the root
    stack,      \* the parse_args frames, innermost last
    retval,     \* the value (or exception) a finished frame hands up
    out,        \* what has been printed, in order
    calls,      \* every parse_args invocation of this dispatch
    returns,    \* every frame that has finished, with what it returned
    parsed,     \* every call of the option parser, with its outcome
    handled,    \* every handle_command invocation
    phase,      \* "idle", "running" or "done" (the caller's position)
    callNo,     \* how many calls of the root the caller has made (0..2)
    how,        \* how the caller made its second call
    orig,       \* the token sequence of the caller's first call
    result,     \* what the root's parse_args returned last
    result1,    \* what the caller's first call returned
    calls1,     \* the parse_args invocations of the caller's first call
    fresh,      \* the objects constructed and not yet wired into the tree
    setups      \* setups[n]: how many times setup() has run on object n

vars == << commands, args, stack, retval, out, calls, returns, parsed,
           handled, phase, callNo, how, orig, result, result1, calls1,
           fresh, setups >>

hist == << out, calls, returns, parsed, handled >>
caller == << callNo, how, orig, result1, calls1 >>
ctor == << fresh, setups >>

\* ------------------------------------------------------------- helpers
Top == stack[Len(stack)]
Frame(n, c) == [node |-> n, cls |-> c, pc |-> "entry"]
Event(t, n, c, rows, tok) ==
    [type |-> t, node |-> n, cls |-> c, rows |-> rows, token |-> tok]

\* a frame finishes with value v: it leaves the stack and v goes up
Finish(v) ==
    /\ retval' = v
    /\ returns' = Append(returns, [node |-> Top.node, cls |-> Top.cls, ret |-> v])
    /\ stack' = SubSeq(stack, 1, Len(stack) - 1)
    /\ IF Len(stack) = 1
       THEN /\ phase' = "done"
            /\ result' = v
       ELSE UNCHANGED << phase, result >>

\* a frame calls parse_args of node n (class c) with the shared list a
Invoke(n, c, a) ==
    /\ stack' = Append([stack EXCEPT ![Len(stack)].pc = "called"], Frame(n, c))
    /\ calls' = Append(calls, [node |-> n, cls |-> c, args |-> a])

\* the class whose parse_args a call on node n binds to
ParseArgsOf(n) == IF nodeClass[n] = "Option" THEN "Option"
                  ELSE IF nodeClass[n] = "App" THEN "App" ELSE "Menu"

\* -------------------------------------------------- CommandMenuNode
\* add_command: self.commands.append(command)
add_command(cmds, command) == Append(cmds, command)

\* faulty variant: rows.insert(0, ...) in place of rows.append(...)
RECURSIVE MenuRowsReversed(_, _)
MenuRowsReversed(cmds, i) ==
    IF i = 0 THEN <<>>
    ELSE << << command_name[cmds[i]], description[cmds[i]] >> >>
         \o MenuRowsReversed(cmds, i - 1)

\* print_menu: the rows handed to columnizer.indent, built by the loop
RECURSIVE MenuRows(_, _)
MenuRows(cmds, i) ==
    IF i = 0 THEN <<>>
    ELSE Append(MenuRows(cmds, i - 1),
                << command_name[cmds[i]], description[cmds[i]] >>)

print_menu(n, c) == Event("menu", n, c, MenuRows(commands[n], Len(commands[n])), <<>>)

\* faulty variant: only the child's name is lower-cased
NameMatchesLowersName(name, token) == Lower(name) = token

\* the comparison of the match loop
NameMatches(name, token) == Lower(name) = Lower(token)

\* faulty variant: found_cmd is assigned outside the if, so a loop that matched
\* nothing leaves the last child in found_cmd
RECURSIVE MatchLoopAssignsAlways(_, _, _, _)
MatchLoopAssignsAlways(cmds, token, i, cmd) ==
    IF i > Len(cmds) THEN [found_cmd |-> cmd, cmd |-> cmd]
    ELSE IF Lower(command_name[cmds[i]]) = Lower(token)
         THEN [found_cmd |-> cmds[i], cmd |-> cmds[i]]
         ELSE MatchLoopAssignsAlways(cmds, token, i + 1, cmds[i])

\* faulty variant: the loop has no break, so cmd ends on the last child whatever
\* child matched
RECURSIVE MatchLoopNoBreak(_, _, _, _)
MatchLoopNoBreak(cmds, token, i, cmd) ==
    IF i > Len(cmds) THEN [found_cmd |-> 0, cmd |-> cmd]
    ELSE LET rest == MatchLoopNoBreak(cmds, token, i + 1, cmds[i])
         IN  IF Lower(command_name[cmds[i]]) = Lower(token)
             THEN [found_cmd |-> IF rest.found_cmd # 0 THEN rest.found_cmd ELSE cmds[i],
                   cmd |-> rest.cmd]
             ELSE rest

\* the for loop of parse_args from position i on: found_cmd and the loop
\* variable cmd as the loop leaves them (0 stands for None / unbound)
RECURSIVE MatchLoop(_, _, _, _)
MatchLoop(cmds, token, i, cmd) ==
    IF i > Len(cmds) THEN [found_cmd |-> 0, cmd |-> cmd]
    ELSE IF NameMatches(command_name[cmds[i]], token)
         THEN [found_cmd |-> cmds[i], cmd |-> cmds[i]]       \* break
         ELSE MatchLoop(cmds, token, i + 1, cmds[i])

NotFound == -1

\* faulty variant: the matched command is popped from self.commands
CommandsAfterRemoving(n, cmd) ==
    [commands EXCEPT ![n] = SelectSeq(@, LAMBDA c : c # cmd)]

\* self.commands of node n after parse_args has matched cmd: parse_args
\* pops from args and never touches self.commands
CommandsAfter(n, cmd) == commands

\* faulty variant: args.pop() takes the last token instead of the first
PoppedLast(a) == SubSeq(a, 1, Len(a) - 1)

\* faulty variant: the pop is missing, the child is handed the list as it is
NotPopped(a) == a

\* the list after args.pop(0)
Popped(a) == Tail(a)

\* CommandMenuNode.parse_args(self, args), up to its recursive call
MenuParseArgs ==
    /\ phase = "running"
    /\ Len(stack) > 0
    /\ Top.cls = "Menu" /\ Top.pc = "entry"
    /\ LET n == Top.node IN
       IF Len(args) = 0
       THEN /\ out' = Append(out, print_menu(n, "Menu"))
            /\ Finish(RetInt(0))
            /\ UNCHANGED << commands, args, calls, parsed, handled, caller, ctor >>
       ELSE LET loop == MatchLoop(commands[n], args[1], 1, 0) IN
            IF loop.found_cmd # 0
            THEN /\ args' = Popped(args)
                 /\ commands' = CommandsAfter(n, loop.cmd)
                 /\ Invoke(loop.cmd, ParseArgsOf(loop.cmd), Popped(args))
                 /\ UNCHANGED << retval, out, returns, parsed, handled,
                                 phase, result, caller, ctor >>
            ELSE /\ out' = Append(out, Event("error", n, "Menu", <<>>, args[1]))
                 /\ Finish(RetInt(NotFound))
                 /\ UNCHANGED << commands, args, calls, parsed, handled, caller, ctor >>

\* faulty variant: the call is made without "return", the frame returns None
PassThroughDropped(v) == RetNone

\* faulty variant: a frame turns every failure code of its child into 1
PassThroughTranslates(v) == IF v.kind = "int" /\ v.code # 0 THEN RetInt(1) ELSE v

\* the caller frame's "return cmd.parse_args(args)": the value goes up as is
PassThrough(v) == v

\* faulty variant: a menu node whose child came back with -1 goes on to a
\* later child of the same name instead of returning
ReturnTriesNextSibling ==
    /\ phase = "running"
    /\ Len(stack) > 0
    /\ Top.pc = "called"
    /\ retval.kind \in {"int", "none"}
    /\ LET n == Top.node
           cs == commands[n]
           later == { i \in 1..Len(cs) :
                        /\ Len(calls) = Len(stack) + 1
                        /\ Top.cls = "Menu"
                        /\ retval = RetInt(NotFound)
                        /\ \E h \in 1..(i - 1) : cs[h] = calls[Len(calls)].node
                        /\ NameMatches(command_name[cs[i]], calls[Len(stack)].args[1]) }
       IN  IF later # {}
           THEN LET sib == cs[CHOOSE i \in later : \A h \in later : i <= h] IN
                /\ stack' = Append(stack, Frame(sib, ParseArgsOf(sib)))
                /\ calls' = Append(calls, [node |-> sib, cls |-> ParseArgsOf(sib),
                                           args |-> args])
                /\ retval' = Pending
                /\ UNCHANGED << commands, args, out, returns, parsed, handled,
                                phase, result, caller, ctor >>
           ELSE /\ Finish(PassThrough(retval))
                /\ UNCHANGED << commands, args, out, calls, parsed, handled, caller, ctor >>

\* a frame whose callee has returned a value returns it
Return ==
    /\ phase = "running"
    /\ Len(stack) > 0
    /\ Top.pc = "called"
    /\ retval.kind \in {"int", "none"}
    /\ Finish(PassThrough(retval))
    /\ UNCHANGED << commands, args, out, calls, parsed, handled, caller, ctor >>

\* a frame whose callee raised: no frame has a try, the exception goes up
Unwind ==
    /\ phase = "running"
    /\ Len(stack) > 0
    /\ Top.pc = "called"
    /\ retval.kind = "raise"
    /\ Finish(retval)
    /\ UNCHANGED << commands, args, out, calls, parsed, handled, caller, ctor >>

\* ---------------------------------------------- the option parser
IsFlag(token) == Len(token) > 0 /\ token[1] = "-"

RECURSIVE Remainders(_)
Remainders(tokens) ==
    IF tokens = <<>> THEN <<>>
    ELSE IF IsFlag(tokens[1]) THEN Remainders(Tail(tokens))
         ELSE << tokens[1] >> \o Remainders(Tail(tokens))

\* PyArgs.parse(args) against the registered flags: the options found and
\* the tokens left over, or a failure when a flag is not in the schema
Parse(sch, tokens) ==
    LET flags == { tokens[i] : i \in { j \in 1..Len(tokens) : IsFlag(tokens[j]) } }
    IN  IF flags \subseteq sch
        THEN [ok |-> TRUE,  options |-> flags, remainders |-> Remainders(tokens)]
        ELSE [ok |-> FALSE, options |-> {},    remainders |-> <<>>]

\* ------------------------------------------- CommandOptionHandler
\* handle_command of the leaf's class
handle_command(n, options, remainders) ==
    IF handler[n] = "own"
    THEN IF remainders = <<>> THEN RetInt(0) ELSE RetInt(HandlerCode)
    ELSE Raise("NotImplementedError")

\* CommandOptionHandler.print_menu: usage line, separator, option list
OptionPrintMenu(n) ==
    << Event("usage", n, "Option", <<>>, <<>>),
       Event("separator", n, "Option", <<>>, <<>>),
       Event("options", n, "Option", <<>>, <<>>) >>

\* faulty variant: the empty-list test is missing, every list goes to the parser
OptionNeverShowsUsage(a) == FALSE

\* the test that sends parse_args to print_menu instead of the parser
OptionShowsUsage(a) == Len(a) = 0

\* faulty variant: the parse failure is caught and handle_command is called anyway
AfterParseSwallowsFailure(n, p) ==
    [invoked |-> << [node |-> n, options |-> p.options,
                     remainders |-> p.remainders] >>,
     ret |-> handle_command(n, p.options, p.remainders)]

\* lines 105-106 once self.parse has produced p: a failed parse leaves
\* parse_args before handle_command is reached, a successful one calls
\* handle_command once with what the parser returned
AfterParse(n, p) ==
    IF p.ok
    THEN [invoked |-> << [node |-> n, options |-> p.options,
                          remainders |-> p.remainders] >>,
          ret |-> handle_command(n, p.options, p.remainders)]
    ELSE [invoked |-> <<>>, ret |-> Raise("OptionParseFailure")]

\* CommandOptionHandler.parse_args(self, args)
OptionParseArgs ==
    /\ phase = "running"
    /\ Len(stack) > 0
    /\ Top.cls = "Option" /\ Top.pc = "entry"
    /\ LET n == Top.node IN
       IF OptionShowsUsage(args)
       THEN /\ out' = out \o OptionPrintMenu(n)
            /\ Finish(RetInt(0))
            /\ UNCHANGED << commands, args, calls, parsed, handled, caller, ctor >>
       ELSE LET p == Parse(schema[n], args) IN
            /\ parsed' = Append(parsed, [node |-> n, tokens |-> args, ok |-> p.ok,
                                         options |-> p.options,
                                         remainders |-> p.remainders])
            /\ handled' = handled \o AfterParse(n, p).invoked
            /\ Finish(AfterParse(n, p).ret)
            /\ UNCHANGED << commands, args, out, calls, caller, ctor >>

\* ------------------------------------------------------- CommandApp
\* faulty variant: the root drops a leading token of its own (args.pop(0)) first
AppArgsDropsFirst(a) == Tail(a)

\* the list CommandApp.parse_args hands to CommandMenuNode.parse_args
AppArgs(a) == a

\* faulty variant: the banner and the menu are printed before the test of
\* the list, so a non-empty list gets them too
AppParseArgsAlwaysPrints ==
    /\ phase = "running"
    /\ Len(stack) > 0
    /\ Top.cls = "App" /\ Top.pc = "entry"
    /\ LET n == Top.node IN
       /\ out' = out \o << Event("banner", n, "App", <<>>, <<>>),
                            Event("separator", n, "App", <<>>, <<>>),
                            print_menu(n, "App") >>
       /\ IF Len(args) = 0
          THEN /\ Finish(RetNone)
               /\ UNCHANGED << commands, args, calls, parsed, handled, caller, ctor >>
          ELSE /\ args' = AppArgs(args)
               /\ Invoke(n, "Menu", AppArgs(args))
               /\ UNCHANGED << commands, retval, returns, parsed, handled,
                               phase, result, caller, ctor >>

\* CommandApp.parse_args(self, args)
AppParseArgs ==
    /\ phase = "running"
    /\ Len(stack) > 0
    /\ Top.cls = "App" /\ Top.pc = "entry"
    /\ LET n == Top.node IN
       IF Len(args) = 0
       THEN /\ out' = out \o << Event("banner", n, "App", <<>>, <<>>),
                               Event("separator", n, "App", <<>>, <<>>),
                               print_menu(n, "App") >>
            /\ Finish(RetNone)
            /\ UNCHANGED << commands, args, calls, parsed, handled, caller, ctor >>
       ELSE /\ args' = AppArgs(args)
            /\ Invoke(n, "Menu", AppArgs(args))
            /\ UNCHANGED << commands, retval, out, returns, parsed, handled,
                            phase, result, caller, ctor >>

\* ------------------------------------------------------ the caller
RECURSIVE Reachable(_, _)
Reachable(n, depth) ==
    IF depth = 0 THEN {n}
    ELSE {n} \cup UNION { Reachable(commands[n][i], depth - 1) : i \in 1..Len(commands[n]) }

Attached == Reachable(Root, MaxAttached)

\* faulty variant: the base class's setup does nothing (only the pass)
setupPasses(n) == RetNone

\* self.setup(): the class's own returns, the inherited one raises
setup(n) == IF setupMethod[n] = "own" THEN RetNone
            ELSE Raise("NotImplementedError")

\* the caller constructs object n between dispatches. A menu node's
\* constructor only sets fields; a leaf's constructor ends with one call of
\* self.setup(), and when that raises the constructor yields no object and
\* the exception ends the caller, which has no handler for it. The caller
\* wires in each object before it constructs the next.
Construct(n) ==
    /\ phase = "idle"
    /\ fresh = {}
    /\ n \notin Attached
    /\ Cardinality(Attached) <= MaxAttached
    /\ IF nodeClass[n] = "Option"
       THEN /\ setups' = [setups EXCEPT ![n] = @ + 1]
            /\ IF setup(n).kind = "raise"
               THEN /\ phase' = "failed"
                    /\ retval' = setup(n)
                    /\ UNCHANGED fresh
               ELSE /\ fresh' = {n}
                    /\ UNCHANGED << phase, retval >>
       ELSE /\ fresh' = {n}
            /\ UNCHANGED << setups, phase, retval >>
    /\ UNCHANGED << commands, args, stack, hist, callNo, how, orig, result,
                    result1, calls1 >>

\* parent.add_command(child) between dispatches: child is an object just
\* constructed, parent a menu node already in the tree (a strict tree)
AddCommand(parent, child) ==
    /\ phase = "idle"
    /\ nodeClass[parent] # "Option"
    /\ parent \in Attached
    /\ child \in fresh
    /\ child \notin Attached
    /\ Cardinality(Attached) <= MaxAttached
    /\ commands' = [commands EXCEPT ![parent] = add_command(commands[parent], child)]
    /\ fresh' = fresh \ {child}
    /\ UNCHANGED << args, stack, retval, hist, phase, callNo, how, orig, result,
                    result1, calls1, setups >>

StartRoot(a) ==
    /\ phase' = "running"
    /\ stack' = << Frame(Root, "App") >>
    /\ calls' = << [node |-> Root, cls |-> "App", args |-> a] >>
    /\ retval' = Pending
    /\ result' = Pending
    /\ out' = <<>> /\ returns' = <<>> /\ parsed' = <<>> /\ handled' = <<>>

\* app.parse_args(tokens) with a new list
Call(tokens) ==
    /\ phase = "idle"
    /\ fresh = {}
    /\ args' = tokens
    /\ orig' = tokens
    /\ callNo' = 1
    /\ how' = "first"
    /\ result1' = Pending
    /\ calls1' = <<>>
    /\ StartRoot(tokens)
    /\ UNCHANGED << commands, ctor >>

\* app.parse_args(l) again with the list object l of the first call
ReCall ==
    /\ phase = "done" /\ callNo = 1
    /\ callNo' = 2
    /\ how' = "same-list"
    /\ result1' = result
    /\ calls1' = calls
    /\ StartRoot(args)
    /\ UNCHANGED << commands, args, orig, ctor >>

\* app.parse_args(list(tokens)) again with a copy of the first call's tokens
CallAgain ==
    /\ phase = "done" /\ callNo = 1
    /\ callNo' = 2
    /\ how' = "copy"
    /\ result1' = result
    /\ calls1' = calls
    /\ args' = orig
    /\ StartRoot(orig)
    /\ UNCHANGED << commands, orig, ctor >>

\* letters that are the two cases of one letter
CasePairs == { <<"d","D">>, <<"e","E">>, <<"p","P">> }
SameLetter(c1, c2) == c1 = c2 \/ <<c1, c2>> \in CasePairs \/ <<c2, c1>> \in CasePairs
DifferOnlyInCase(t1, t2) ==
    /\ Len(t1) = Len(t2)
    /\ \A i \in 1..Len(t1) : SameLetter(t1[i], t2[i])

\* app.parse_args(l2) where l2 is the first call's tokens with one command
\* name, the i-th token, which a menu node compared with its children,
\* written in another letter case
CallRecased(i, token) ==
    /\ phase = "done" /\ callNo = 1
    /\ i \in 1..Len(orig)
    /\ \E k \in 1..Len(calls) :
          /\ calls[k].cls = "Menu"
          /\ Len(calls[k].args) = Len(orig) - i + 1
    /\ token # orig[i]
    /\ DifferOnlyInCase(token, orig[i])
    /\ callNo' = 2
    /\ how' = "recased"
    /\ result1' = result
    /\ calls1' = calls
    /\ args' = [orig EXCEPT ![i] = token]
    /\ StartRoot([orig EXCEPT ![i] = token])
    /\ UNCHANGED << commands, orig, ctor >>

\* the caller drops the result and the list
Reset ==
    /\ phase = "done"
    /\ phase' = "idle"
    /\ args' = <<>> /\ orig' = <<>>
    /\ stack' = <<>>
    /\ retval' = Pending /\ result' = Pending /\ result1' = Pending
    /\ calls1' = <<>>
    /\ out' = <<>> /\ calls' = <<>> /\ returns' = <<>>
    /\ parsed' = <<>> /\ handled' = <<>>
    /\ callNo' = 0 /\ how' = "first"
    /\ UNCHANGED << commands, ctor >>

\* ------------------------------------------------- specification
Init ==
    /\ commands = [n \in Nodes |-> <<>>]
    /\ args = <<>> /\ orig = <<>>
    /\ stack = <<>>
    /\ retval = Pending /\ result = Pending /\ result1 = Pending
    /\ calls1 = <<>>
    /\ out = <<>> /\ calls = <<>> /\ returns = <<>>
    /\ parsed = <<>> /\ handled = <<>>
    /\ phase = "idle"
    /\ callNo = 0 /\ how = "first"
    /\ fresh = {}
    /\ setups = [n \in Nodes |-> 0]

Next ==
    \/ \E n \in Nodes \ {Root} : Construct(n)
    \/ \E parent \in Nodes, child \in Nodes \ {Root} : AddCommand(parent, child)
    \/ \E tokens \in TokenLists : Call(tokens)
    \/ ReCall
    \/ CallAgain
    \/ \E i \in 1..MaxArgs, token \in Tokens : CallRecased(i, token)
    \/ Reset
    \/ AppParseArgs
    \/ MenuParseArgs
    \/ OptionParseArgs
    \/ Return
    \/ Unwind

Spec == Init /\ [][Next]_vars

\* one step of a dispatch under way: the interpreter runs the frame on top
Step == AppParseArgs \/ MenuParseArgs \/ OptionParseArgs \/ Return \/ Unwind

\* the program that wires a tree and dispatches one list at a time
DispatchNext ==
    \/ \E n \in Nodes \ {Root} : Construct(n)
    \/ \E parent \in Nodes, child \in Nodes \ {Root} : AddCommand(parent, child)
    \/ \E tokens \in TokenLists : Call(tokens)
    \/ Reset
    \/ Step

\* a call, once made, keeps running: parse_args is synchronous and never
\* waits for anything
FairSpec == Init /\ [][DispatchNext]_vars /\ WF_vars(Step)

\* ==================================================== the claims
\* what the claims say, stated on the record of a dispatch

\* name and token are the same string up to letter case
SameIgnoringCase(name, token) == Lower(name) = Lower(token)

\* no child of node n carries token as its name, case-insensitively
NoChildNamed(n, token) ==
    \A i \in 1..Len(commands[n]) :
        ~ SameIgnoringCase(command_name[commands[n][i]], token)

\* the k-th parse_args invocation was made by a CommandMenuNode.parse_args
\* frame that matched a child
MenuCalled(k) == k < Len(calls) /\ calls[k].cls = "Menu"

\* C1: pass-through identity.  A menu node whose first token matches a child
\* calls that child's parse_args with the first token removed, every frame
\* returns exactly the value its callee returned, and so the root's result
\* is the result of the node finally reached, nonzero handler codes included.
C1_PassThrough ==
    /\ \A k \in 1..Len(calls) :
          MenuCalled(k) =>
             /\ calls[k].args # <<>>
             /\ \E i \in 1..Len(commands[calls[k].node]) :
                   /\ commands[calls[k].node][i] = calls[k + 1].node
                   /\ SameIgnoringCase(command_name[calls[k + 1].node], calls[k].args[1])
             /\ calls[k + 1].args = Tail(calls[k].args)
    /\ \A i \in 2..Len(returns) :
          returns[i - 1].ret.kind \in {"int", "none"} => returns[i].ret = returns[i - 1].ret
    /\ (phase = "done" /\ returns[1].ret.kind \in {"int", "none"}) =>
          /\ returns[1].node = calls[Len(calls)].node
          /\ result = returns[1].ret

\* a leaf two levels below the root returned its own nonzero code to the caller
C1_Witness ==
    /\ phase = "done"
    /\ Len(calls) >= 4
    /\ calls[Len(calls)].cls = "Option"
    /\ handled # <<>>
    /\ result = RetInt(HandlerCode)

\* C2: UnknownCommand.  When the first token of a non-empty list names no
\* child of a menu node (at any depth, with or without children), that node
\* returns -1, the one thing printed is the error naming that token, and no
\* child's parse_args and no handle_command is invoked.
C2_UnknownCommand ==
    \A k \in 1..Len(calls) :
        ( /\ calls[k].cls = "Menu"
          /\ calls[k].args # <<>>
          /\ NoChildNamed(calls[k].node, calls[k].args[1]) ) =>
            /\ k = Len(calls)
            /\ handled = <<>> /\ parsed = <<>>
            /\ returns # <<>> =>
                  /\ returns[1] = [node |-> calls[k].node, cls |-> "Menu", ret |-> RetInt(-1)]
                  /\ Len(out) = 1
                  /\ out[1].type = "error"
                  /\ out[1].node = calls[k].node
                  /\ out[1].token = calls[k].args[1]
            /\ phase = "done" => result = RetInt(-1)

\* a nested menu node without children reported its token as not found
C2_Witness ==
    /\ phase = "done"
    /\ Len(out) = 1 /\ out[1].type = "error"
    /\ out[1].node # Root
    /\ commands[out[1].node] = <<>>
    /\ result = RetInt(-1)

\* a menu node with children reported an unmatched token
C2_WitnessChildren ==
    /\ phase = "done"
    /\ Len(out) = 1 /\ out[1].type = "error"
    /\ Len(commands[out[1].node]) >= 2

\* C3: empty token list at a menu node.  parse_args returns 0, resolves no
\* child, and the rows handed to the formatter are the (name, description)
\* pairs of the node's immediate children in insertion order, no more, no fewer.
C3_EmptyListsMenu ==
    \A k \in 1..Len(calls) :
        (calls[k].cls = "Menu" /\ calls[k].args = <<>>) =>
            /\ k = Len(calls)
            /\ handled = <<>> /\ parsed = <<>>
            /\ returns # <<>> =>
                  /\ returns[1] = [node |-> calls[k].node, cls |-> "Menu", ret |-> RetInt(0)]
                  /\ Len(out) = 1
                  /\ out[1].type = "menu"
                  /\ out[1].node = calls[k].node
                  /\ Len(out[1].rows) = Len(commands[calls[k].node])
                  /\ \A i \in 1..Len(commands[calls[k].node]) :
                        /\ out[1].rows[i][1] = command_name[commands[calls[k].node][i]]
                        /\ out[1].rows[i][2] = description[commands[calls[k].node][i]]

\* a nested menu node listed two children
C3_Witness ==
    /\ phase = "done"
    /\ Len(out) = 1 /\ out[1].type = "menu" /\ out[1].cls = "Menu"
    /\ Len(out[1].rows) >= 2
    /\ out[1].rows[1] # out[1].rows[2]
    /\ result = RetInt(0)

\* C4: the App root given an empty token list prints the banner, the
\* separator and the menu listing, and returns 0 like CommandMenuNode.
C4_AppEmptyReturnsZero ==
    (phase = "done" /\ calls[1].cls = "App" /\ calls[1].args = <<>>) =>
        /\ [i \in 1..Len(out) |-> out[i].type] = << "banner", "separator", "menu" >>
        /\ result = RetInt(0)

\* C5: a leaf given an empty list shows its usage, returns 0 and never
\* reaches handle_command; given a non-empty list that parses, it calls
\* handle_command exactly once, with the options and remainders the parser
\* returned for that list.
C5_HandleCommandOnce ==
    /\ Len(handled) <= 1
    /\ \A k \in 1..Len(calls) :
          calls[k].cls = "Option" =>
             /\ k = Len(calls)
             /\ returns # <<>> =>
                   IF calls[k].args = <<>>
                   THEN /\ handled = <<>> /\ parsed = <<>>
                        /\ returns[1] = [node |-> calls[k].node, cls |-> "Option",
                                         ret |-> RetInt(0)]
                        /\ [i \in 1..Len(out) |-> out[i].type]
                              = << "usage", "separator", "options" >>
                   ELSE /\ Len(parsed) = 1
                        /\ parsed[1].node = calls[k].node
                        /\ parsed[1].tokens = calls[k].args
                        /\ parsed[1].ok =>
                              /\ Len(handled) = 1
                              /\ handled[1].node = calls[k].node
                              /\ handled[1].options = parsed[1].options
                              /\ handled[1].remainders = parsed[1].remainders

\* a leaf parsed a flag and a positional token and called its handler once
C5_Witness ==
    /\ phase = "done"
    /\ calls[Len(calls)].cls = "Option"
    /\ Len(handled) = 1
    /\ handled[1].options # {}
    /\ handled[1].remainders # <<>>

\* a leaf reached with no tokens left showed its usage
C5_WitnessUsage ==
    /\ phase = "done"
    /\ calls[Len(calls)].cls = "Option"
    /\ calls[Len(calls)].args = <<>>
    /\ handled = <<>>

\* C6 as stated: a second call of the root with the list object the first
\* call was given returns what the first call returned.  Stated for the
\* second calls that still find a token in the list, so that the value the
\* root returns for an empty list (C4) plays no part.
C6_SameListSameCode ==
    (phase = "done" /\ callNo = 2 /\ how = "same-list" /\ calls[1].args # <<>>) =>
        result = result1

\* C6 amended: a second call of the root with a list equal to the token
\* sequence of the first call (a fresh copy of it) returns what the first
\* call returned.
C6_EqualTokensSameCode ==
    (phase = "done" /\ callNo = 2 /\ how = "copy") =>
        /\ result = result1
        /\ calls = calls1

\* two calls with equal tokens went through two menu levels and failed alike
C6_Witness ==
    /\ phase = "done" /\ callNo = 2 /\ how = "copy"
    /\ Len(orig) >= 2
    /\ Len(calls) >= 3
    /\ args # orig
    /\ result = RetInt(-1)

\* C7: the child a menu node recurses into is the first child in insertion
\* order whose name equals the first token case-insensitively, also when
\* that child is not the last one and when later children carry the name.
C7_FirstMatchResolved ==
    \A k \in 1..Len(calls) :
        MenuCalled(k) =>
            \E i \in 1..Len(commands[calls[k].node]) :
                /\ commands[calls[k].node][i] = calls[k + 1].node
                /\ SameIgnoringCase(command_name[commands[calls[k].node][i]],
                                    calls[k].args[1])
                /\ \A j \in 1..(i - 1) :
                      ~ SameIgnoringCase(command_name[commands[calls[k].node][j]],
                                         calls[k].args[1])

\* the child resolved was followed in the list by a sibling of the same name
C7_Witness ==
    \E k \in 1..Len(calls) :
        /\ MenuCalled(k)
        /\ Len(commands[calls[k].node]) >= 2
        /\ commands[calls[k].node][1] = calls[k + 1].node
        /\ SameIgnoringCase(command_name[commands[calls[k].node][2]], calls[k].args[1])

\* the child resolved came after a sibling of another name
C7_WitnessLater ==
    \E k \in 1..Len(calls) :
        /\ MenuCalled(k)
        /\ Len(commands[calls[k].node]) >= 3
        /\ commands[calls[k].node][2] = calls[k + 1].node

\* C8: two tokens that differ only in letter case select the same child of
\* a menu node and give the same result.
C8_CaseInsensitive ==
    (phase = "done" /\ callNo = 2 /\ how = "recased") =>
        /\ result = result1
        /\ Len(calls) = Len(calls1)
        /\ \A k \in 1..Len(calls) : calls[k].node = calls1[k].node

\* the same child was selected by the token in two letter cases
C8_Witness ==
    /\ phase = "done" /\ callNo = 2 /\ how = "recased"
    /\ Len(calls) >= 3
    /\ Len(calls1) >= 3
    /\ calls[3].args # <<>>
    /\ calls[3].args[1] # calls1[3].args[1]
    /\ calls[3].cls = "Menu"
    /\ result.kind = "int"

\* C9: OptionParseFailure.  When the parser rejects a leaf's non-empty
\* tokens the failure leaves parse_args and reaches the caller of the root,
\* and handle_command is not invoked in that dispatch.
C9_ParseFailureSurfaces ==
    \A i \in 1..Len(parsed) :
        ~ parsed[i].ok =>
            /\ handled = <<>>
            /\ returns # <<>> /\ returns[1].ret = Raise("OptionParseFailure")
            /\ phase = "done" => result = Raise("OptionParseFailure")

\* a nested leaf's parser rejected a flag and the caller saw the failure
C9_Witness ==
    /\ phase = "done"
    /\ Len(parsed) = 1 /\ ~ parsed[1].ok
    /\ Len(calls) >= 4
    /\ result = Raise("OptionParseFailure")

\* C10: for a non-empty token list the App root does what a plain menu
\* node with its children does: it hands the whole list to
\* CommandMenuNode.parse_args on itself, prints nothing of its own and
\* returns what that call returned.
C10_AppAsMenuNode ==
    (calls # <<>> /\ calls[1].args # <<>>) =>
        /\ Len(calls) >= 2 =>
              calls[2] = [node |-> Root, cls |-> "Menu", args |-> calls[1].args]
        /\ \A i \in 1..Len(out) : out[i].cls # "App"
        /\ phase = "done" =>
              /\ Len(returns) >= 2
              /\ returns[Len(returns)].cls = "App"
              /\ returns[Len(returns) - 1].node = Root
              /\ returns[Len(returns) - 1].cls = "Menu"
              /\ returns[Len(returns)].ret = returns[Len(returns) - 1].ret
              /\ result = returns[Len(returns) - 1].ret

\* the root passed a list on and the dispatch went on to a leaf's handler
C10_Witness ==
    /\ phase = "done"
    /\ calls[1].args # <<>>
    /\ Len(calls) >= 3
    /\ handled # <<>>
    /\ result.kind = "int"

\* the tokens the caller's list held when the root was called
StartTokens == calls[1].args

\* every token of the list named a child on the way: the dispatch ended at
\* a node that was handed an empty list
PathSpelled ==
    /\ StartTokens # <<>>
    /\ Len(calls) = Len(StartTokens) + 2
    /\ calls[Len(calls)].args = <<>>

\* C11: a token list that spells a path of child names from the root to a
\* node, with no token left over, ends at that node with an empty list: the
\* node shows its menu (menu node) or its usage (leaf), handle_command is
\* not invoked and the root returns 0.
C11_PathEndsInListing ==
    (phase = "done" /\ PathSpelled) =>
        LET last == calls[Len(calls)] IN
        /\ handled = <<>> /\ parsed = <<>>
        /\ \A i \in 1..Len(out) : out[i].node = last.node
        /\ [i \in 1..Len(out) |-> out[i].type] =
              IF nodeClass[last.node] = "Option"
              THEN << "usage", "separator", "options" >>
              ELSE << "menu" >>
        /\ result = RetInt(0)

\* the dispatch of three names went root -> menu -> menu -> leaf and showed
\* the leaf's usage, as ["delete", "level5", "pretty"] does
C11_Witness ==
    /\ phase = "done" /\ PathSpelled
    /\ Len(StartTokens) = 3
    /\ nodeClass[calls[Len(calls)].node] = "Option"
    /\ out # <<>> /\ out[1].type = "usage"
    /\ result = RetInt(0)

\* a spelled path ended at a menu node, which listed its children
C11_WitnessMenu ==
    /\ phase = "done" /\ PathSpelled
    /\ Len(StartTokens) = 2
    /\ nodeClass[calls[Len(calls)].node] = "Menu"
    /\ out # <<>> /\ out[1].type = "menu" /\ out[1].rows # <<>>

\* how many menu nodes had matched a token when the j-th parse_args
\* invocation was made
MatchesBefore(j) == Cardinality({ i \in 1..(j - 1) : calls[i].cls = "Menu" })

\* list a without its first k tokens
DropFirst(a, k) == SubSeq(a, k + 1, Len(a))

\* C12: token accounting.  Each menu node that matches removes exactly the
\* front token, so a node reached after k matches receives the input list
\* without its first k tokens, in the original order, and a leaf reached
\* there hands the parser exactly that suffix.
C12_TokenAccounting ==
    /\ \A j \in 1..Len(calls) :
          /\ MatchesBefore(j) <= Len(StartTokens)
          /\ calls[j].args = DropFirst(StartTokens, MatchesBefore(j))
    /\ \A i \in 1..Len(parsed) :
          /\ parsed[i].node = calls[Len(calls)].node
          /\ parsed[i].tokens = DropFirst(StartTokens, MatchesBefore(Len(calls)))

\* a leaf reached after two matches parsed the one token left of three
C12_Witness ==
    /\ phase = "done"
    /\ Len(StartTokens) = 3
    /\ Len(calls) = 4
    /\ Len(parsed) = 1
    /\ parsed[1].tokens = << StartTokens[3] >>
    /\ StartTokens[1] # StartTokens[3]

\* the k-th invocation was made by the frame of the invocation before it: on
\* a child of that frame's node, or by the root on itself
CalledByPrevious(k) ==
    \/ /\ calls[k - 1].cls = "App"
       /\ calls[k].node = calls[k - 1].node /\ calls[k].cls = "Menu"
    \/ /\ calls[k - 1].cls = "Menu"
       /\ \E i \in 1..Len(commands[calls[k - 1].node]) :
             commands[calls[k - 1].node][i] = calls[k].node

\* C13: non-backtracking.  A menu node resolves at most one child in a
\* dispatch, the one it matched: the invocations form one chain from the
\* root down, and once any frame has returned (a leaf was reached, or a
\* node resolved or failed) no further parse_args is invoked, also when the
\* child failed with -1 and a later sibling carries the same name.
C13_NoBacktracking ==
    /\ \A k \in 2..Len(calls) : CalledByPrevious(k)
    /\ \A j, k \in 1..Len(calls) :
          (j # k /\ calls[j].node = calls[k].node) => calls[j].cls # calls[k].cls
    /\ returns # <<>> =>
          /\ Len(calls) = Len(stack) + Len(returns)
          /\ \A i \in 1..Len(stack) : stack[i].pc = "called"
          /\ calls[Len(calls)].node = returns[1].node

\* the child a menu node chose failed with -1 while a later sibling of the
\* same name was never resolved
C13_Witness ==
    /\ phase = "done"
    /\ result = RetInt(-1)
    /\ \E k \in 1..Len(calls) :
          /\ MenuCalled(k)
          /\ Len(commands[calls[k].node]) >= 2
          /\ commands[calls[k].node][1] = calls[k + 1].node
          /\ SameIgnoringCase(command_name[commands[calls[k].node][2]], calls[k].args[1])
          /\ \A j \in 1..Len(calls) : calls[j].node # commands[calls[k].node][2]

\* the nodes whose parse_args has been invoked in this dispatch
Visited == { calls[j].node : j \in 1..Len(calls) }

\* C14: termination.  A dispatch started at the root always reaches a
\* terminal state (the root's call returns a code or lets a failure out),
\* and it visits at most len(tokens) + 1 nodes, each at most once.
C14_Terminates ==
    /\ [](calls # <<>> =>
            /\ Cardinality(Visited) <= Len(StartTokens) + 1
            /\ \A j, k \in 1..Len(calls) :
                  (j < k /\ calls[j].node = calls[k].node) =>
                      (calls[j].cls = "App" /\ calls[k].cls = "Menu" /\ k = j + 1))
    /\ (phase = "running") ~> (phase = "done")

\* a dispatch of three tokens ended after visiting four nodes
C14_Witness ==
    /\ phase = "done"
    /\ Len(StartTokens) = 3
    /\ Cardinality(Visited) = 4
    /\ stack = <<>>

\* every frame of the finished dispatch came back with v
AllFramesGave(v) == \A i \in 1..Len(returns) : returns[i].ret = v

\* C15 as stated: every failure of a dispatch reaches the caller of the root
\* as a returned exit code, never as an exception crossing a node boundary.
\* Stated for the dispatches whose parse succeeded or never took place, so
\* that the way the parser reports a failure plays no part.
C15_FailuresAreCodes ==
    (phase = "done" /\ \A i \in 1..Len(parsed) : parsed[i].ok) =>
        /\ result.kind # "raise"
        /\ \A i \in 1..Len(returns) : returns[i].ret.kind # "raise"

\* C15 amended: UnknownCommand and HandlerFailure reach the caller as the
\* returned code, which no level wraps or translates; NotImplemented and
\* OptionParseFailure reach the caller as the exception raised at the leaf,
\* which passes through every level unchanged and uncaught.
C15_FailuresPropagateUnchanged ==
    phase = "done" =>
        /\ (\E i \in 1..Len(out) : out[i].type = "error") =>
              (result = RetInt(-1) /\ AllFramesGave(RetInt(-1)))
        /\ (\E i \in 1..Len(parsed) : ~ parsed[i].ok) =>
              (result = Raise("OptionParseFailure")
                 /\ AllFramesGave(Raise("OptionParseFailure")))
        /\ \A i \in 1..Len(handled) :
              /\ (handler[handled[i].node] = "base") =>
                    (result = Raise("NotImplementedError")
                       /\ AllFramesGave(Raise("NotImplementedError")))
              /\ (handler[handled[i].node] = "own" /\ handled[i].remainders # <<>>) =>
                    (result = RetInt(HandlerCode) /\ AllFramesGave(RetInt(HandlerCode)))

\* the base class's handle_command raised two levels below the root and the
\* caller of the root got the exception
C15_Witness ==
    /\ phase = "done"
    /\ Len(returns) >= 4
    /\ handled # <<>>
    /\ result = Raise("NotImplementedError")

\* a handler's own failure code came up through four frames
C15_WitnessCode ==
    /\ phase = "done"
    /\ Len(returns) >= 4
    /\ result = RetInt(HandlerCode)

\* C16: the tree is read-only during dispatch.  No parse_args step adds,
\* removes or reorders the children of any node; a children list changes
\* only between dispatches, by add_command, and then by one append.
C16_TreeReadOnly ==
    [][ /\ Step => commands' = commands
        /\ (commands' # commands) =>
              /\ phase = "idle" /\ phase' = "idle"
              /\ \E parent \in Nodes, child \in Nodes :
                    /\ commands'[parent] = Append(commands[parent], child)
                    /\ \A n \in Nodes \ {parent} : commands'[n] = commands[n]
      ]_vars

\* a dispatch went through two menu nodes with several children and ended
C16_Witness ==
    /\ phase = "done"
    /\ Len(calls) >= 4
    /\ Len(commands[Root]) >= 2
    /\ commands[calls[3].node] # <<>>

\* how many menu nodes have matched a token so far in this dispatch
Matched == MatchesBefore(Len(calls))

\* C17: parse_args shortens the caller's own list in place.  After k menu
\* nodes have matched, exactly the first k tokens are gone from the list the
\* caller passed to the root; when the dispatch ends in UnknownCommand the
\* unmatched token is still at its head; with no match, or an empty list,
\* the list is as the caller passed it.
C17_CallerListShortened ==
    calls # <<>> =>
        /\ args = DropFirst(StartTokens, Matched)
        /\ Len(args) = Len(StartTokens) - Matched
        /\ (callNo = 1 /\ phase = "done") => args = DropFirst(orig, Matched)
        /\ \A i \in 1..Len(out) :
              out[i].type = "error" => (args # <<>> /\ args[1] = out[i].token)
        /\ (Matched = 0 \/ StartTokens = <<>>) => args = StartTokens

\* two names matched and the third token was not found: the caller's list
\* of three is left holding that token alone
C17_Witness ==
    /\ phase = "done" /\ callNo = 1
    /\ Len(orig) = 3
    /\ Matched = 2
    /\ out # <<>> /\ out[1].type = "error"
    /\ args = << orig[3] >>

\* nothing matched: the caller's list is unchanged
C17_WitnessUnchanged ==
    /\ phase = "done" /\ callNo = 1
    /\ orig # <<>> /\ Matched = 0
    /\ args = orig

\* how many events of type t have been printed in this dispatch
Printed(t) == Cardinality({ i \in 1..Len(out) : out[i].type = t })

\* the terminal outcomes that have occurred in this dispatch: menu listings,
\* not-found errors, usage banners and parser calls
Outcomes == Printed("menu") + Printed("error") + Printed("usage") + Len(parsed)

\* C18: a dispatch from the root has exactly one terminal outcome: one menu
\* listing, or one not-found error, or one usage banner, or one parser call
\* followed by at most one handle_command; never two of them, and the menu
\* nodes passed on the way print nothing.
C18_OneOutcome ==
    /\ Outcomes <= 1
    /\ phase = "done" => Outcomes = 1
    /\ Len(handled) <= Len(parsed)
    /\ \A i \in 1..Len(handled) : handled[i].node = parsed[1].node
    /\ \A i \in 1..Len(out) :
          /\ out[i].node = calls[Len(calls)].node
          /\ returns # <<>> /\ out[i].node = returns[1].node

\* a dispatch passed two menu nodes in silence and ended in one parser call
\* and one handle_command
C18_Witness ==
    /\ phase = "done"
    /\ Len(calls) >= 4
    /\ out = <<>>
    /\ Len(parsed) = 1 /\ Len(handled) = 1

\* a dispatch passed two menu nodes in silence and ended in one error
C18_WitnessError ==
    /\ phase = "done"
    /\ Len(calls) >= 4
    /\ Len(out) = 1 /\ out[1].type = "error"
    /\ parsed = <<>>

\* the leaves whose class inherits setup, and those whose class has its own
\* setup but inherits handle_command
Leaves == { n \in Nodes : nodeClass[n] = "Option" }
WithoutSetup == { n \in Leaves : setupMethod[n] = "base" }
WithoutHandler == { n \in Leaves : setupMethod[n] = "own" /\ handler[n] = "base" }

\* the token list the last frame of the chain was called with
LeafArgs == calls[Len(calls)].args

\* C19: a leaf whose class inherits setup fails inside its constructor with
\* NotImplementedError, so it is never an object the caller can wire into
\* the tree; setup runs once per constructed leaf, in the constructor, and
\* never during a dispatch. A leaf with its own setup and the inherited
\* handle_command raises exactly when it is given a non-empty list that
\* parses, and on an empty list prints its usage and returns 0.
C19_NotImplementedTiming ==
    /\ \A n \in Nodes : setups[n] = IF n \in Leaves /\ (n \in Attached \cup fresh
                                                       \/ (phase = "failed" /\ n \in WithoutSetup))
                                   THEN 1 ELSE 0
    /\ \A n \in WithoutSetup : n \notin Attached \cup fresh
    /\ phase = "failed" <=> \E n \in WithoutSetup : setups[n] = 1
    /\ phase = "failed" => retval = Raise("NotImplementedError")
    /\ \A k \in 1..Len(returns) :
          (returns[k].cls = "Option" /\ returns[k].node \in WithoutHandler) =>
              /\ returns[k].ret = Raise("NotImplementedError")
                    <=> (LeafArgs # <<>> /\ Parse(schema[returns[k].node], LeafArgs).ok)
              /\ LeafArgs = <<>> =>
                    /\ returns[k].ret = RetInt(0)
                    /\ out = OptionPrintMenu(returns[k].node)
                    /\ handled = <<>>

\* the constructor of a leaf without setup has failed after a tree was built
C19_Witness ==
    /\ phase = "failed"
    /\ \E n \in WithoutSetup : setups[n] = 1
    /\ Cardinality(Attached) >= 3
    /\ \E n \in Attached : n \in WithoutHandler

\* a leaf without handle_command was reached with a list that parsed
C19_WitnessHandler ==
    /\ phase = "done"
    /\ result = Raise("NotImplementedError")
    /\ Len(handled) = 1 /\ handled[1].node \in WithoutHandler
    /\ setups[handled[1].node] = 1

\* a leaf without handle_command was reached with the list used up
C19_WitnessEmpty ==
    /\ phase = "done"
    /\ Len(calls) >= 2
    /\ calls[Len(calls)].node \in WithoutHandler
    /\ LeafArgs = <<>>
    /\ result = RetInt(0)

====
